---- MODULE Spec2Model ----
(***************************************************************************)
(* A model of plot_top_camera_params.py: the walk over a directory tree,   *)
(* the extraction and filtering of EXIF tags, the top-value selection and  *)
(* the four count plots of main.                                           *)
(*                                                                         *)
(* Strings are sequences of one-character strings, a Python dict is the    *)
(* sequence of its (key, value) items in insertion order, a pandas Series  *)
(* is the sequence of its (label, value) entries in positional order.      *)
(***************************************************************************)
EXTENDS Integers, Sequences, FiniteSets, TLC

VARIABLES
    pc,           \* position of the program
    walk,         \* what os.walk yields: a sequence of [subdir, files]
    refcounting,  \* whether the runtime finalizes an object once unreferenced
    di, fi,       \* indices of the two loops of harvest_exifs_from_dir
    f,            \* the local f of harvest_exifs_from_dir: a handle or None
    openHandles,  \* handles opened and not yet closed
    visited,      \* handles in the order open() was called for them
    tags,         \* the local list tags of harvest_exifs_from_dir
    harvested,    \* the value harvest_exifs_from_dir returned, or None
    err,          \* the exception that ended the program, or "none"
    exifs_df,     \* the DataFrame of main, or None
    ci,           \* which of the four plots main is at
    top,          \* the value of the last sel_top_vals call
    plots,        \* the series handed to sns.countplot, in order
    call          \* a single function call: its arguments and its result

vars == <<pc, walk, refcounting, di, fi, f, openHandles, visited, tags, harvested, err,
          exifs_df, ci, top, plots, call>>

\* the value of f before the first open(): no handle
NoHandle == <<0, 0>>

(***************************************************************************)
(* Bounds of the model.                                                    *)
(***************************************************************************)
MaxFiles == 3
MaxDistinct == 11
MaxExtra == 2

(***************************************************************************)
(* Strings.                                                                *)
(***************************************************************************)
sep == "/"

Digits == {"0", "1", "2", "3", "4", "5", "6", "7", "8", "9"}

DigitVal(c) ==
    CASE c = "0" -> 0 [] c = "1" -> 1 [] c = "2" -> 2 [] c = "3" -> 3
      [] c = "4" -> 4 [] c = "5" -> 5 [] c = "6" -> 6 [] c = "7" -> 7
      [] c = "8" -> 8 [] c = "9" -> 9

DigitChar(n) ==
    CASE n = 0 -> "0" [] n = 1 -> "1" [] n = 2 -> "2" [] n = 3 -> "3"
      [] n = 4 -> "4" [] n = 5 -> "5" [] n = 6 -> "6" [] n = 7 -> "7"
      [] n = 8 -> "8" [] n = 9 -> "9"

RECURSIVE IntStr(_)
IntStr(n) == IF n < 10 THEN <<DigitChar(n)>>
             ELSE Append(IntStr(n \div 10), DigitChar(n % 10))

\* str.lower() on the letters that occur in the model's file names
LowerChar(c) ==
    CASE c = "N" -> "n" [] c = "E" -> "e" [] c = "F" -> "f"
      [] c = "R" -> "r" [] c = "A" -> "a" [] c = "W" -> "w"
      [] OTHER -> c

Lower(s) == [i \in 1..Len(s) |-> LowerChar(s[i])]

\* str.rfind(c), 1-based; 0 when c does not occur
RFind(s, c) ==
    LET I == {i \in 1..Len(s) : s[i] = c}
    IN  IF I = {} THEN 0 ELSE CHOOSE i \in I : \A j \in I : j <= i

\* os.path.splitext(p)[-1]: the text from the last dot of the last path
\* component, unless that component has only dots before it
SplitextExt(p) ==
    LET sepIndex == RFind(p, sep)
        dotIndex == RFind(p, ".")
    IN  IF /\ dotIndex > sepIndex
           /\ \E j \in (sepIndex + 1)..(dotIndex - 1) : p[j] # "."
        THEN SubSeq(p, dotIndex, Len(p))
        ELSE <<>>

(***************************************************************************)
(* Python numbers: the quotient num/den in lowest terms.                   *)
(***************************************************************************)
RECURSIVE Gcd(_, _)
Gcd(a, b) == IF b = 0 THEN a ELSE Gcd(b, a % b)

Num(n, d) == LET g == Gcd(n, d) IN [num |-> n \div g, den |-> d \div g]

NumLess(a, b) == a.num * b.den < b.num * a.den

IsDigits(s) == Len(s) > 0 /\ \A i \in 1..Len(s) : s[i] \in Digits

\* a decimal integer literal: no leading zero
IsIntLiteral(s) == IsDigits(s) /\ (Len(s) > 1 => s[1] # "0")

RECURSIVE ParseInt(_)
ParseInt(s) == IF Len(s) = 0 THEN 0
               ELSE 10 * ParseInt(SubSeq(s, 1, Len(s) - 1)) + DigitVal(s[Len(s)])

\* eval(s) of the strings a tag prints as: "n" or "n/d".  The result is
\* [exc, val]: the exception raised, or "none" and the number.
Eval(s) ==
    LET slash == RFind(s, "/")
        lhs == SubSeq(s, 1, slash - 1)
        rhs == SubSeq(s, slash + 1, Len(s))
    IN  IF IsIntLiteral(s)
        THEN [exc |-> "none", val |-> Num(ParseInt(s), 1)]
        ELSE IF slash > 0 /\ IsIntLiteral(lhs) /\ IsIntLiteral(rhs)
        THEN IF ParseInt(rhs) = 0
             THEN [exc |-> "ZeroDivisionError", val |-> Num(0, 1)]
             ELSE [exc |-> "none", val |-> Num(ParseInt(lhs), ParseInt(rhs))]
        ELSE [exc |-> "SyntaxError", val |-> Num(0, 1)]

(***************************************************************************)
(* Values: an exifread tag object, a Python str, a Python float, NaN.      *)
(***************************************************************************)
TagObj(s) == [kind |-> "tag", s |-> s, num |-> 0, den |-> 1]
StrVal(s) == [kind |-> "str", s |-> s, num |-> 0, den |-> 1]
FloatVal(x) == [kind |-> "float", s |-> <<>>, num |-> x.num, den |-> x.den]
NaN == [kind |-> "nan", s |-> <<>>, num |-> 0, den |-> 1]

\* str(v) of a tag object: its printable text
Str(v) == StrVal(v.s)

(***************************************************************************)
(* dict: the sequence of its items <<key, value>>, keys distinct.          *)
(***************************************************************************)
Keys(d) == {d[i][1] : i \in 1..Len(d)}

Get(d, k) == d[CHOOSE i \in 1..Len(d) : d[i][1] = k][2]

\* d[k] = v
DictSet(d, k, v) ==
    IF k \in Keys(d)
    THEN [i \in 1..Len(d) |-> IF d[i][1] = k THEN <<k, v>> ELSE d[i]]
    ELSE Append(d, <<k, v>>)

ExposureTime == "EXIF ExposureTime"
ISOSpeedRatings == "EXIF ISOSpeedRatings"
FocalLength == "EXIF FocalLength"
FNumber == "EXIF FNumber"

exif_subset == <<ExposureTime, ISOSpeedRatings, FocalLength, FNumber>>

Range(s) == {s[i] : i \in 1..Len(s)}

\* a callback is given by the set of items it returns True for
filter_dict_keeps_rejected(dict_obj, callback) ==
    LET F[i \in 0..Len(dict_obj)] ==
            IF i = 0 THEN <<>>
            ELSE IF dict_obj[i] \notin callback
                 THEN DictSet(F[i - 1], dict_obj[i][1], dict_obj[i][2])
                 ELSE F[i - 1]
    IN  F[Len(dict_obj)]

filter_dict(dict_obj, callback) ==
    LET F[i \in 0..Len(dict_obj)] ==
            IF i = 0 THEN <<>>
            ELSE IF dict_obj[i] \in callback
                 THEN DictSet(F[i - 1], dict_obj[i][1], dict_obj[i][2])
                 ELSE F[i - 1]
    IN  F[Len(dict_obj)]

\* lambda elem: elem[0] in exif_subset, on the items of raw_tags
InExifSubset(raw_tags) ==
    {raw_tags[i] : i \in {j \in 1..Len(raw_tags) : raw_tags[j][1] \in Range(exif_subset)}}

\* a file's content: its EXIF tags, or a file exifread.process_file cannot
\* decode, or a file open() fails on
Content(raw) == [kind |-> "image", raw |-> raw]
Undecodable == [kind |-> "undecodable", raw |-> <<>>]
Unopenable == [kind |-> "unopenable", raw |-> <<>>]

\* exifread.process_file(f) on a file with the given content
process_file(content) ==
    IF content.kind = "undecodable"
    THEN [exc |-> "DecodeError", val |-> <<>>]
    ELSE [exc |-> "none", val |-> content.raw]

\* the dict of line 62: F number evaluated, the others as strings
ConvertItem(acc, k, v) ==
    IF acc.exc # "none" THEN acc
    ELSE IF k # FNumber
    THEN [exc |-> "none", val |-> DictSet(acc.val, k, Str(v))]
    ELSE IF Eval(Str(v).s).exc # "none"
    THEN [exc |-> Eval(Str(v).s).exc, val |-> <<>>]
    ELSE [exc |-> "none", val |-> DictSet(acc.val, k, FloatVal(Eval(Str(v).s).val))]

ConvertTags(selected_tags) ==
    LET F[i \in 0..Len(selected_tags)] ==
            IF i = 0 THEN [exc |-> "none", val |-> <<>>]
            ELSE ConvertItem(F[i - 1], selected_tags[i][1], selected_tags[i][2])
    IN  F[Len(selected_tags)]

\* collect_tags(f, tags_subset), f open on a file with the given content
collect_tags(content, tags_subset) ==
    LET raw_tags == process_file(content)
        selected_tags == filter_dict(raw_tags.val, InExifSubset(raw_tags.val))
    IN  IF raw_tags.exc # "none" THEN raw_tags
        ELSE ConvertTags(selected_tags)

(***************************************************************************)
(* The directory trees of the model.                                       *)
(***************************************************************************)
Chars125 == <<"1", "/", "1", "2", "5">>
Chars250 == <<"1", "/", "2", "5", "0">>

Tags125 == <<<<ExposureTime, TagObj(Chars125)>>>>
Tags250 == << <<"Image Make", TagObj(<<"N", "K">>)>>, <<ExposureTime, TagObj(Chars250)>> >>
TagsFull == << <<ExposureTime, TagObj(Chars250)>>,
               <<FNumber, TagObj(<<"2", "8", "/", "1", "0">>)>>,
               <<ISOSpeedRatings, TagObj(<<"4", "0", "0">>)>>,
               <<FocalLength, TagObj(<<"5", "0">>)>> >>
TagsBadF == <<<<FNumber, TagObj(<<"0", "/", "0">>)>>>>

\* the files a directory may hold: three names harvest takes, each with
\* some of the contents, and two names it skips
NameA == <<"a", ".", "n", "e", "f">>
NameB == <<"b", ".", "N", "E", "F">>
NameC == <<"c", ".", "R", "a", "w">>
NameD == <<"d", ".", "j", "p", "g">>
NameE == <<".", "n", "e", "f">>

Files ==
    {[name |-> NameA, content |-> c] :
        c \in {Content(Tags125), Content(Tags250), Content(TagsFull), Content(<<>>)}}
    \cup {[name |-> NameB, content |-> c] :
        c \in {Content(Tags125), Content(Tags250), Content(TagsBadF), Unopenable}}
    \cup {[name |-> NameC, content |-> c] :
        c \in {Content(Tags125), Content(Tags250), Content(TagsFull), Undecodable}}
    \cup {[name |-> n, content |-> Content(<<>>)] : n \in {NameD, NameE}}

RootDir == <<"d">>
SubDir == <<"d", "/", "s", ".", "r", "a", "w">>

\* the sequences of n files with distinct names
RECURSIVE FileSeqs(_)
FileSeqs(n) ==
    IF n = 0 THEN {<<>>}
    ELSE UNION {{Append(s, fl) :
                    fl \in {x \in Files : \A i \in 1..(n - 1) : s[i].name # x.name}}
                  : s \in FileSeqs(n - 1)}

\* a tree: the root's files, then those of one subdirectory when it has any
Walks ==
    UNION {{IF k = Len(fs)
            THEN <<[subdir |-> RootDir, files |-> fs]>>
            ELSE <<[subdir |-> RootDir, files |-> SubSeq(fs, 1, k)],
                   [subdir |-> SubDir, files |-> SubSeq(fs, k + 1, Len(fs))]>>
              : k \in {Len(fs), Len(fs) \div 2}}
              : fs \in UNION {FileSeqs(n) : n \in 0..MaxFiles}}

(***************************************************************************)
(* harvest_exifs_from_dir                                                  *)
(***************************************************************************)
NoResult == [returned |-> FALSE, val |-> <<>>]
NoFrame == [built |-> FALSE, columns |-> <<>>, rows |-> <<>>]
NoTop == [col |-> "", index |-> {}, series |-> <<>>]
NoCall == [fn |-> "none", arg |-> <<>>, subset |-> <<>>, callback |-> {},
           after |-> <<>>, ret |-> [exc |-> "none", val |-> <<>>]]

InWalk == pc = "harvest" /\ di <= Len(walk)
AtFile == InWalk /\ fi <= Len(walk[di].files)
filepath == walk[di].subdir \o <<sep>> \o walk[di].files[fi].name
ext == Lower(SplitextExt(filepath))
content == walk[di].files[fi].content

RawExts == {<<".", "n", "e", "f">>, <<".", "r", "a", "w">>}

\* a variant that compares the extension as it is spelt
ExtWantedCaseSensitive == SplitextExt(filepath) \in RawExts

\* line 92: the extensions harvested
ExtWanted == ext \in RawExts

\* lines 92-93: continue
SkipFile ==
    /\ AtFile
    /\ ~ExtWanted
    /\ fi' = fi + 1
    /\ UNCHANGED <<pc, walk, refcounting, di, f, openHandles, visited, tags, harvested, err,
                   exifs_df, ci, top, plots, call>>

\* line 95, open() succeeding.  Nothing closes a handle: the one f held
\* before is released only if the runtime finalizes it when f is rebound
\* (reference counting does, a tracing collector need not).  open() has
\* returned the new handle before f lets go of the old one.
OpenFile ==
    /\ AtFile
    /\ ExtWanted
    /\ content.kind # "unopenable"
    /\ openHandles' = (IF refcounting THEN openHandles \ {f} ELSE openHandles)
                          \cup {<<di, fi>>}
    /\ f' = <<di, fi>>
    /\ visited' = Append(visited, <<di, fi>>)
    /\ pc' = "collect"
    /\ UNCHANGED <<walk, refcounting, di, fi, tags, harvested, err, exifs_df, ci, top, plots, call>>

\* line 95, open() raising: nothing catches it
OpenRaises ==
    /\ AtFile
    /\ ExtWanted
    /\ content.kind = "unopenable"
    /\ visited' = Append(visited, <<di, fi>>)
    /\ err' = "OSError"
    /\ pc' = "error"
    /\ UNCHANGED <<walk, refcounting, di, fi, f, openHandles, tags, harvested, exifs_df, ci,
                   top, plots, call>>

\* line 98, collect_tags returning
CollectTags ==
    /\ pc = "collect"
    /\ collect_tags(content, exif_subset).exc = "none"
    /\ tags' = Append(tags, collect_tags(content, exif_subset).val)
    /\ fi' = fi + 1
    /\ pc' = "harvest"
    /\ UNCHANGED <<walk, refcounting, di, f, openHandles, visited, harvested, err, exifs_df,
                   ci, top, plots, call>>

\* a variant that logs the failure and goes on to the next file
CollectRaisesAndSkips ==
    /\ pc = "collect"
    /\ collect_tags(content, exif_subset).exc # "none"
    /\ err' = collect_tags(content, exif_subset).exc
    /\ fi' = fi + 1
    /\ pc' = "harvest"
    /\ UNCHANGED <<walk, refcounting, di, f, openHandles, visited, tags, harvested, exifs_df,
                   ci, top, plots, call>>

\* line 98, collect_tags raising: nothing catches it, and the traceback
\* keeps the frame, so f keeps its handle
CollectRaises ==
    /\ pc = "collect"
    /\ collect_tags(content, exif_subset).exc # "none"
    /\ err' = collect_tags(content, exif_subset).exc
    /\ pc' = "error"
    /\ UNCHANGED <<walk, refcounting, di, fi, f, openHandles, visited, tags, harvested,
                   exifs_df, ci, top, plots, call>>

\* line 87: the files of one directory are done
NextDir ==
    /\ InWalk
    /\ fi > Len(walk[di].files)
    /\ di' = di + 1
    /\ fi' = 1
    /\ UNCHANGED <<pc, walk, refcounting, f, openHandles, visited, tags, harvested, err,
                   exifs_df, ci, top, plots, call>>

\* line 100.  The frame goes, and with it f: its handle is released only if
\* the runtime finalizes it then.
HarvestReturn ==
    /\ pc = "harvest"
    /\ di > Len(walk)
    /\ harvested' = [returned |-> TRUE, val |-> tags]
    /\ openHandles' = IF refcounting THEN openHandles \ {f} ELSE openHandles
    /\ f' = NoHandle
    /\ pc' = "dataframe"
    /\ UNCHANGED <<walk, refcounting, di, fi, visited, tags, err, exifs_df, ci, top, plots, call>>

(***************************************************************************)
(* pandas: a DataFrame is [columns, rows], each row the cells of the       *)
(* columns in order; row i has the label i - 1 (a RangeIndex).             *)
(***************************************************************************)
\* pd.DataFrame(records): the columns are the keys in order of first
\* appearance, a key a record lacks gives NaN
\* where key k first appears: the record, then the place in that record
FirstRecord(records, k) ==
    CHOOSE i \in 1..Len(records) :
        /\ k \in Keys(records[i])
        /\ \A h \in 1..(i - 1) : k \notin Keys(records[h])

PlaceIn(rec, k) == CHOOSE j \in 1..Len(rec) : rec[j][1] = k

AppearsBefore(records, k1, k2) ==
    \/ FirstRecord(records, k1) < FirstRecord(records, k2)
    \/ /\ FirstRecord(records, k1) = FirstRecord(records, k2)
       /\ PlaceIn(records[FirstRecord(records, k1)], k1)
            < PlaceIn(records[FirstRecord(records, k2)], k2)

DataFrame(records) ==
    LET allKeys == UNION {Keys(records[i]) : i \in 1..Len(records)}
        columns == [n \in 1..Cardinality(allKeys) |->
                      CHOOSE k \in allKeys :
                          Cardinality({o \in allKeys : AppearsBefore(records, o, k)}) = n - 1]
    IN  [built |-> TRUE,
         columns |-> columns,
         rows |-> [i \in 1..Len(records) |->
                     [j \in 1..Len(columns) |->
                        IF columns[j] \in Keys(records[i])
                        THEN Get(records[i], columns[j]) ELSE NaN]]]

ShutterSpeed == "Shutter Speed"
ISO == "ISO"
FocalLen == "Focal length"
FNum == "F number"

\* lines 118-122: the columns renamed, any other column kept
Rename(df) ==
    [df EXCEPT !.columns =
        [j \in 1..Len(df.columns) |->
            CASE df.columns[j] = ExposureTime -> ShutterSpeed
              [] df.columns[j] = ISOSpeedRatings -> ISO
              [] df.columns[j] = FocalLength -> FocalLen
              [] df.columns[j] = FNumber -> FNum
              [] OTHER -> df.columns[j]]]

\* data[x]: the Series of column x, for a column data has
Column(data, x) ==
    LET c == CHOOSE j \in 1..Len(data.columns) : data.columns[j] = x
    IN  [i \in 1..Len(data.rows) |-> [label |-> i - 1, val |-> data.rows[i][c]]]

\* values.value_counts(): the count of each value, NaN left out
value_counts(values) ==
    [v \in {values[i].val : i \in 1..Len(values)} \ {NaN} |->
        Cardinality({i \in 1..Len(values) : values[i].val = v})]

TopN == 10

\* counts.nlargest(n).index: n values of greatest count (all when there are
\* fewer); which of several values of equal count at the boundary are taken
\* depends on the order value_counts lists them in
nlargest(counts, n) ==
    {T \in SUBSET DOMAIN counts :
        /\ Cardinality(T) = IF Cardinality(DOMAIN counts) < n
                            THEN Cardinality(DOMAIN counts) ELSE n
        /\ \A v \in T : \A w \in (DOMAIN counts) \ T : counts[v] >= counts[w]}

\* data[mask]: the entries of the Series s that are in kept, in order
Masked(s, kept) ==
    LET F[i \in 0..Len(s)] ==
            IF i = 0 THEN <<>>
            ELSE IF s[i] \in kept THEN Append(F[i - 1], s[i]) ELSE F[i - 1]
    IN  F[Len(s)]

\* a variant that keeps the rows whose cell is missing
sel_top_vals_keeps_nan(data, x, top_values_cnt_idx) ==
    LET values == Column(data, x)
    IN  Masked(values, {e \in Range(values) : e.val \in top_values_cnt_idx \cup {NaN}})

\* a variant that returns each of the top values once, in its first row
sel_top_vals_first_rows(data, x, top_values_cnt_idx) ==
    LET values == Column(data, x)
    IN  Masked(values, {e \in Range(values) :
                          /\ e.val \in top_values_cnt_idx
                          /\ \A i \in 1..e.label : values[i].val # e.val})

\* lines 76-80, top_values_cnt_idx being values.value_counts().nlargest(10).index
sel_top_vals(data, x, top_values_cnt_idx) ==
    LET values == Column(data, x)
    IN  Masked(values, {e \in Range(values) : e.val \in top_values_cnt_idx})

PlotColumns == <<ShutterSpeed, ISO, FocalLen, FNum>>

\* line 116-122
BuildDataFrame ==
    /\ pc = "dataframe"
    /\ exifs_df' = Rename(DataFrame(harvested.val))
    /\ ci' = 1
    /\ pc' = "sel"
    /\ UNCHANGED <<walk, refcounting, di, fi, f, openHandles, visited, tags, harvested, err,
                   top, plots, call>>

\* the sel_top_vals call of lines 135, 137, 138, 139 on a column of exifs_df
SelTopVals ==
    /\ pc = "sel"
    /\ PlotColumns[ci] \in Range(exifs_df.columns)
    /\ \E idx \in nlargest(value_counts(Column(exifs_df, PlotColumns[ci])), TopN) :
         top' = [col |-> PlotColumns[ci], index |-> idx,
                 series |-> sel_top_vals(exifs_df, PlotColumns[ci], idx)]
    /\ pc' = "plot"
    /\ UNCHANGED <<walk, refcounting, di, fi, f, openHandles, visited, tags, harvested, err,
                   exifs_df, ci, plots, call>>

\* line 76, data[x] for a column exifs_df lacks
SelTopRaises ==
    /\ pc = "sel"
    /\ PlotColumns[ci] \notin Range(exifs_df.columns)
    /\ err' = "KeyError"
    /\ pc' = "error"
    /\ UNCHANGED <<walk, refcounting, di, fi, f, openHandles, visited, tags, harvested,
                   exifs_df, ci, top, plots, call>>

\* s.apply(lambda x: eval(x)): the entries with their numbers
Applied(s) == [i \in 1..Len(s) |-> [label |-> s[i].label, key |-> Eval(s[i].val.s)]]

ApplyRaises(s) == \E i \in 1..Len(s) : Eval(s[i].val.s).exc # "none"

\* sort_values().index: the labels in ascending order of the numbers; the
\* sort is not stable, so equal numbers come in any order
RECURSIVE SortedIndex(_)
SortedIndex(S) ==
    IF S = {} THEN {<<>>}
    ELSE LET M == {e \in S : \A o \in S : ~NumLess(o.key.val, e.key.val)}
         IN  UNION {{<<e.label>> \o t : t \in SortedIndex(S \ {e})} : e \in M}

\* s.iloc[idx]: the entries at the positions idx, counted from 0
iloc(s, idx) == [i \in 1..Len(idx) |-> s[idx[i] + 1]]

IlocRaises(s, idx) == \E i \in 1..Len(idx) : idx[i] >= Len(s)

NextPlot ==
    IF ci < Len(PlotColumns)
    THEN ci' = ci + 1 /\ pc' = "sel"
    ELSE ci' = ci /\ pc' = "show"

\* lines 135-136: the labels of the sorted series used as positions
PlotShutter ==
    /\ pc = "plot"
    /\ ci = 1
    /\ ~ApplyRaises(top.series)
    /\ \E idx \in SortedIndex(Range(Applied(top.series))) :
         /\ ~IlocRaises(top.series, idx)
         /\ plots' = Append(plots, iloc(top.series, idx))
    /\ NextPlot
    /\ UNCHANGED <<walk, refcounting, di, fi, f, openHandles, visited, tags, harvested, err,
                   exifs_df, top, call>>

\* line 135 raising: eval of a cell, or iloc of a position past the end
PlotShutterRaises ==
    /\ pc = "plot"
    /\ ci = 1
    /\ \/ ApplyRaises(top.series)
       \/ \E idx \in SortedIndex(Range(Applied(top.series))) :
            IlocRaises(top.series, idx)
    /\ err' = IF ApplyRaises(top.series)
              THEN (CHOOSE e \in {Eval(top.series[i].val.s).exc :
                                    i \in 1..Len(top.series)} : e # "none")
              ELSE "IndexError"
    /\ pc' = "error"
    /\ UNCHANGED <<walk, refcounting, di, fi, f, openHandles, visited, tags, harvested,
                   exifs_df, ci, top, plots, call>>

\* lines 137-139
Countplot ==
    /\ pc = "plot"
    /\ ci > 1
    /\ plots' = Append(plots, top.series)
    /\ NextPlot
    /\ UNCHANGED <<walk, refcounting, di, fi, f, openHandles, visited, tags, harvested, err,
                   exifs_df, top, call>>

\* line 141
Show ==
    /\ pc = "show"
    /\ pc' = "done"
    /\ UNCHANGED <<walk, refcounting, di, fi, f, openHandles, visited, tags, harvested, err,
                   exifs_df, ci, top, plots, call>>

(***************************************************************************)
(* The program on a directory tree.                                        *)
(***************************************************************************)
Init ==
    /\ walk \in Walks
    /\ refcounting \in BOOLEAN
    /\ pc = "harvest"
    /\ di = 1
    /\ fi = 1
    /\ f = NoHandle
    /\ openHandles = {}
    /\ visited = <<>>
    /\ tags = <<>>
    /\ harvested = NoResult
    /\ err = "none"
    /\ exifs_df = NoFrame
    /\ ci = 0
    /\ top = NoTop
    /\ plots = <<>>
    /\ call = NoCall

Next ==
    \/ SkipFile
    \/ OpenFile
    \/ OpenRaises
    \/ CollectTags
    \/ CollectRaises
    \/ NextDir
    \/ HarvestReturn
    \/ BuildDataFrame
    \/ SelTopVals
    \/ SelTopRaises
    \/ PlotShutter
    \/ PlotShutterRaises
    \/ Countplot
    \/ Show

Spec == Init /\ [][Next]_vars

(***************************************************************************)
(* main from the DataFrame on, on the lists of records harvest may return. *)
(* A record has the ISO, focal length and F number of its file and, unless *)
(* the file lacks the tag, its exposure time: "2", or "1/k" for k > 1.     *)
(***************************************************************************)
ShutterChars(k) == IF k = 1 THEN IntStr(2) ELSE <<"1", "/">> \o IntStr(k)

RecordOf(k) ==
    (IF k = 0 THEN <<>> ELSE <<<<ExposureTime, StrVal(ShutterChars(k))>>>>)
    \o << <<ISOSpeedRatings, StrVal(<<"4", "0", "0">>)>>,
          <<FocalLength, StrVal(<<"5", "0">>)>>,
          <<FNumber, FloatVal(Num(28, 10))>> >>

\* the sequences over S of length at most n
RECURSIVE SeqsUpTo(_, _)
SeqsUpTo(S, n) ==
    IF n = 0 THEN {<<>>}
    ELSE SeqsUpTo(S, n - 1)
           \cup {Append(s, x) : s \in {t \in SeqsUpTo(S, n - 1) : Len(t) = n - 1}, x \in S}

\* K distinct exposure times, once each in ascending or descending order
\* of k, and before or after them up to MaxExtra further files: without
\* the tag (0) or with one of the exposure times 1, 2, K
ExposureLists ==
    UNION {UNION {{extra \o base, base \o extra} :
                    base \in {[i \in 1..K |-> i], [i \in 1..K |-> K + 1 - i]},
                    extra \in SeqsUpTo({0, 1, 2, K}, MaxExtra)}
             : K \in (TopN - 2)..MaxDistinct}

RecordLists == {[i \in 1..Len(ks) |-> RecordOf(ks[i])] : ks \in ExposureLists}

InitTop ==
    /\ harvested \in {[returned |-> TRUE, val |-> recs] : recs \in RecordLists}
    /\ tags = harvested.val
    /\ walk = <<>>
    /\ refcounting = TRUE
    /\ pc = "dataframe"
    /\ di = 1
    /\ fi = 1
    /\ f = NoHandle
    /\ openHandles = {}
    /\ visited = <<>>
    /\ err = "none"
    /\ exifs_df = NoFrame
    /\ ci = 0
    /\ top = NoTop
    /\ plots = <<>>
    /\ call = NoCall

NextTop ==
    \/ BuildDataFrame
    \/ SelTopVals
    \/ PlotShutter
    \/ PlotShutterRaises
    \/ Countplot
    \/ Show

SpecTop == InitTop /\ [][NextTop]_vars

(***************************************************************************)
(* filter_dict and collect_tags called on their own.                       *)
(***************************************************************************)
CallKeys == {ExposureTime, FNumber, "Image Make"}
CallVals == {TagObj(Chars250), TagObj(<<"2", "8", "/", "1", "0">>)}

\* the dicts over CallKeys and CallVals, in every insertion order
RECURSIVE Dicts(_)
Dicts(n) ==
    IF n = 0 THEN {<<>>}
    ELSE Dicts(n - 1)
           \cup UNION {{Append(d, <<k, v>>) : k \in CallKeys \ Keys(d), v \in CallVals}
                         : d \in {t \in Dicts(n - 1) : Len(t) = n - 1}}

\* the elements of s at the positions P, in order
Pick(s, P) ==
    [j \in 1..Cardinality(P) |->
        s[CHOOSE i \in P : Cardinality({q \in P : q <= i}) = j]]

CallInputs ==
    {[fn |-> "filter_dict", arg |-> d, subset |-> <<>>, callback |-> cb,
      after |-> <<>>, ret |-> [exc |-> "none", val |-> <<>>]] :
        d \in Dicts(Cardinality(CallKeys)), cb \in SUBSET (CallKeys \X CallVals)}
    \cup
    {[fn |-> "collect_tags", arg |-> d, subset |-> Pick(exif_subset, P), callback |-> {},
      after |-> <<>>, ret |-> [exc |-> "none", val |-> <<>>]] :
        d \in Dicts(Cardinality(CallKeys)), P \in SUBSET (1..Len(exif_subset))}

\* filter_dict(call.arg, call.callback); the function assigns to no item
\* of dict_obj, which is call.arg still when it returns
CallFilterDict ==
    /\ pc = "call"
    /\ call.fn = "filter_dict"
    /\ call' = [call EXCEPT !.ret = [exc |-> "none",
                                     val |-> filter_dict(call.arg, call.callback)],
                            !.after = call.arg]
    /\ pc' = "returned"
    /\ UNCHANGED <<walk, refcounting, di, fi, f, openHandles, visited, tags,
                   harvested, err, exifs_df, ci, top, plots>>

\* collect_tags(f, call.subset), f open on an image with the tags call.arg
CallCollectTags ==
    /\ pc = "call"
    /\ call.fn = "collect_tags"
    /\ call' = [call EXCEPT !.ret = collect_tags(Content(call.arg), call.subset),
                            !.after = call.arg]
    /\ pc' = "returned"
    /\ UNCHANGED <<walk, refcounting, di, fi, f, openHandles, visited, tags,
                   harvested, err, exifs_df, ci, top, plots>>

InitCalls ==
    /\ call \in CallInputs
    /\ pc = "call"
    /\ walk = <<>>
    /\ refcounting = TRUE
    /\ di = 1
    /\ fi = 1
    /\ f = NoHandle
    /\ openHandles = {}
    /\ visited = <<>>
    /\ tags = <<>>
    /\ harvested = NoResult
    /\ err = "none"
    /\ exifs_df = NoFrame
    /\ ci = 0
    /\ top = NoTop
    /\ plots = <<>>

NextCalls ==
    \/ CallFilterDict
    \/ CallCollectTags

SpecCalls == InitCalls /\ [][NextCalls]_vars

(***************************************************************************)
(* The properties.                                                         *)
(***************************************************************************)
RECURSIVE FlatFiles(_)
FlatFiles(w) == IF w = <<>> THEN <<>> ELSE Head(w).files \o FlatFiles(Tail(w))

\* the name ends in .nef or .raw, in any case, after a stem that is not
\* dots only
HasRawExtension(name) ==
    \E i \in 2..Len(name) :
        /\ name[i] = "."
        /\ \A j \in (i + 1)..Len(name) : name[j] # "."
        /\ \E j \in 1..(i - 1) : name[j] # "."
        /\ \E e \in RawExts :
             /\ Len(e) = Len(name) - i + 1
             /\ \A j \in 1..Len(e) : LowerChar(name[i + j - 1]) = e[j]

\* the files of the tree that harvest is to take, in walk order
RawFiles ==
    LET all == FlatFiles(walk)
    IN  Pick(all, {i \in 1..Len(all) : HasRawExtension(all[i].name)})

NoDuplicates(s) == \A i, j \in 1..Len(s) : s[i] = s[j] => i = j

\* C1: at every point of the walk at most one handle is open, and once
\* harvest has returned or aborted none of its handles is open.
C1_OneHandleScoped ==
    /\ Cardinality(openHandles) <= 1
    /\ pc \notin {"harvest", "collect"} => openHandles = {}

\* C2: harvest returns one record per file whose extension is .nef or .raw
\* in any case, in walk order, each with the tracked tags of its file, be
\* they four, fewer or none; no other file contributes a record.
C2_OneRecordPerRawFile ==
    harvested.returned =>
        /\ Len(harvested.val) = Len(RawFiles)
        /\ \A j \in 1..Len(RawFiles) :
             LET rec == harvested.val[j]
                 raw == RawFiles[j].content.raw
             IN  /\ Keys(rec) = Keys(raw) \cap Range(exif_subset)
                 /\ NoDuplicates([i \in 1..Len(rec) |-> rec[i][1]])
                 /\ ExposureTime \in Keys(rec) =>
                      Get(rec, ExposureTime) = StrVal(Get(raw, ExposureTime).s)

\* harvest has returned two records, one of them empty, one of a file named
\* in upper case, from a tree of three files
C2_Witness ==
    /\ harvested.returned
    /\ Len(FlatFiles(walk)) = 3
    /\ Len(harvested.val) = 2
    /\ \E j \in 1..2 : harvested.val[j] = <<>>
    /\ \E j \in 1..2 : RawFiles[j].name = NameB

Occurrences(values, v) == Cardinality({i \in 1..Len(values) : values[i].val = v})

DistinctValues(values) == {values[i].val : i \in 1..Len(values)} \ {NaN}

Returned(series) == {series[i].val : i \in 1..Len(series)}

\* C3: on a column of at least 10 distinct values sel_top_vals returns
\* exactly 10 distinct values, none of them less frequent than a value it
\* leaves out, and every row of the column with one of them, in row order.
C3_TopTenOfMany ==
    LET values == Column(exifs_df, top.col)
        R == Returned(top.series)
    IN  (pc = "plot" /\ Cardinality(DistinctValues(values)) >= TopN) =>
            /\ Cardinality(R) = TopN
            /\ R \subseteq DistinctValues(values)
            /\ \A v \in R : \A w \in DistinctValues(values) \ R :
                 Occurrences(values, v) >= Occurrences(values, w)
            /\ top.series = Pick(values, {i \in 1..Len(values) : values[i].val \in R})

\* sel_top_vals has left out a value of a column of more than 10 distinct
\* values, and has returned a value that occurs in several rows
C3_Witness ==
    LET values == Column(exifs_df, top.col)
    IN  /\ pc = "plot"
        /\ Cardinality(DistinctValues(values)) > TopN
        /\ \E v \in Returned(top.series) : Occurrences(values, v) > 1
        /\ \E i \in 1..Len(values) : values[i].val = NaN

\* C4 as stated: on a column of fewer than 10 distinct values sel_top_vals
\* returns all rows, those with a missing cell too.
C4_AllRowsOfFew ==
    LET values == Column(exifs_df, top.col)
    IN  (pc = "plot" /\ Cardinality(DistinctValues(values)) < TopN) =>
            top.series = values

\* C4 (amended): on a column of fewer than 10 distinct values sel_top_vals
\* returns the rows whose cell is not missing, unchanged and in row order,
\* and no row whose cell is missing.
C4_AllPresentRowsOfFew ==
    LET values == Column(exifs_df, top.col)
    IN  (pc = "plot" /\ Cardinality(DistinctValues(values)) < TopN) =>
            top.series = Pick(values, {i \in 1..Len(values) : values[i].val # NaN})

\* sel_top_vals has returned from a column of fewer than 10 distinct values
\* with a missing cell in one row and a value in another
C4_Witness ==
    LET values == Column(exifs_df, top.col)
    IN  /\ pc = "plot"
        /\ Cardinality(DistinctValues(values)) < TopN
        /\ Cardinality(DistinctValues(values)) > 1
        /\ \E i \in 1..Len(values) : values[i].val = NaN
        /\ Len(top.series) > 0

NoRawFile == \A i \in 1..Len(FlatFiles(walk)) : ~HasRawExtension(FlatFiles(walk)[i].name)

\* C5: on a tree without a matching file harvest returns the empty sequence
\* and main runs to the end: it raises nothing.
C5_EmptyHarvestCompletes ==
    NoRawFile =>
        /\ harvested.returned => harvested.val = <<>>
        /\ err = "none"
        /\ pc # "error"

Ascending(series) ==
    \A i, j \in 1..Len(series) :
        i < j => ~NumLess(Eval(series[j].val.s).val, Eval(series[i].val.s).val)

Reordering(a, b) == Len(a) = Len(b) /\ Range(a) = Range(b)

\* C6: the series plotted first is the Shutter Speed Top-10 Subset
\* reordered, ascending in the number the fraction stands for, whether or
\* not the subset is all of the rows.  Stated for the datasets in which
\* every file has an exposure time, so that rows are left out only when the
\* column has more than 10 distinct values.
C6_ShutterReordered ==
    (/\ top.col = ShutterSpeed
     /\ pc # "plot"
     /\ NaN \notin Returned(Column(exifs_df, ShutterSpeed))) =>
        /\ err = "none"
        /\ Len(plots) = 1
        /\ Reordering(plots[1], top.series)
        /\ Ascending(plots[1])

\* C7: filter_dict returns the items of the dict the callback accepts, each
\* key once with its value, and leaves the dict as it was; the empty dict
\* gives the empty dict.
C7_FilterDictExact ==
    (pc = "returned" /\ call.fn = "filter_dict") =>
        /\ Keys(call.ret.val) =
             {k \in Keys(call.arg) : <<k, Get(call.arg, k)>> \in call.callback}
        /\ Len(call.ret.val) = Cardinality(Keys(call.ret.val))
        /\ \A k \in Keys(call.ret.val) : Get(call.ret.val, k) = Get(call.arg, k)
        /\ call.after = call.arg
        /\ call.arg = <<>> => call.ret.val = <<>>

\* filter_dict has kept one item of a dict and dropped another
C7_Witness ==
    /\ pc = "returned"
    /\ call.fn = "filter_dict"
    /\ Len(call.ret.val) > 0
    /\ Len(call.ret.val) < Len(call.arg)

\* C8: collect_tags returns the tags of the file whose name is in the
\* tags_subset it is given, and no other key.
C8_CollectedWithinSubset ==
    (pc = "returned" /\ call.fn = "collect_tags" /\ call.ret.exc = "none") =>
        Keys(call.ret.val) = Keys(call.arg) \cap Range(call.subset)

\* C9: when every harvested file has the exposure time and none of the
\* other three tags, main raises nothing, and the first plot holds every
\* row in ascending order of the exposure time.
C9_ExposureOnlyCompletes ==
    (/\ harvested.returned
     /\ Len(harvested.val) > 0
     /\ \A j \in 1..Len(harvested.val) : Keys(harvested.val[j]) = {ExposureTime}) =>
        /\ err = "none"
        /\ pc # "error"
        /\ Len(plots) > 0 =>
             /\ Len(plots[1]) = Len(harvested.val)
             /\ Ascending(plots[1])

\* C10: an exception raised before harvest returned has ended the program at
\* the file it was raised for: that file is the last one opened, none was
\* opened twice, harvest returned nothing and nothing was built or plotted.
C10_FailureAbortsHarvest ==
    (err # "none" /\ ci = 0) =>
        /\ pc = "error"
        /\ ~harvested.returned
        /\ ~exifs_df.built
        /\ plots = <<>>
        /\ Len(visited) > 0
        /\ visited[Len(visited)] = <<di, fi>>
        /\ NoDuplicates(visited)
        /\ ~ENABLED Next

\* collect_tags has raised after a record was collected and with a matching
\* file still to come
C10_Witness ==
    /\ pc = "error"
    /\ err \in {"DecodeError", "ZeroDivisionError"}
    /\ Len(tags) > 0
    /\ Len(visited) < Len(RawFiles)

====
